---- MODULE Spec2Model ----
(***************************************************************************)
(* A model of unixpickle/attention: the interfacer block that threads      *)
(* attention queries through a recurrent decoder (interfacerBlock,         *)
(* ibResult), the orchestrator built on it (SoftAlign.Apply, SoftAlign.    *)
(* Block, focusFunc, skipFirstResult) and the sequence softmax             *)
(* (seqSoftmax).                                                           *)
(*                                                                         *)
(* Vectors are sequences of integers modulo Mod.  The collaborators the    *)
(* package only drives (the decoder rnn.Block, the resources it is given,  *)
(* rnn.BlockSeqFunc) are modelled by their contracts: the decoder and the  *)
(* resources as fixed lane-wise functions, the sequence driver as the      *)
(* lock-step loop over the lanes that are still present.                   *)
(***************************************************************************)
EXTENDS Integers, Sequences, FiniteSets, TLC

VARIABLES
    Resources,   \* interfacerBlock.Resources: one resource per lane
    ResInSize,   \* interfacerBlock.ResInSize (SoftAlign.QuerySize)
    StartQuery,  \* the initial query the test of the block configures
    decIn,       \* the decoder inputs: one sequence of vectors per lane
    rmode,       \* TRUE: the run uses the R-operator entry points
    pc,          \* where the run of SoftAlign.Apply stands
    states,      \* BlockSeqFunc: the current state of every lane
    packedOut,   \* BlockSeqFunc: the outputs of every lane so far
    steps,       \* BlockSeqFunc: one record per ApplyBlock call
    lastCall,    \* the last ApplyBlock call: its arguments and how it ended
    skipped,     \* skipFirstResult.Skipped
    g,           \* the gradient accumulator of the backward pass
    rg,          \* the R-gradient accumulator of the backward pass
    lastBack,    \* the last PropagateGradient call of a step's result
    stateUp,     \* BlockSeqFunc: the state gradient of every lane
    newU,        \* the upstream handed to the wrapped result
    bt,          \* BlockSeqFunc: the step the backward pass is to propagate
    enc,         \* SoftAlign.Block: enc.Output(), the batches of its argument
    blockRes,    \* SoftAlign.Block: how the call ended
    focus,       \* a focusFunc
    focusIn,     \* focusFunc.Apply / ApplyR: the query
    focusRes,    \* focusFunc.Apply / ApplyR: how the call ended
    smIn,        \* seqSoftmax: the lanes of its argument
    smOut,       \* seqSoftmax: the lanes of its result
    smMid        \* seqSoftmax: maxes, exps and scalers of the call

ibVars == <<Resources, ResInSize, StartQuery, decIn, rmode, pc, states,
            packedOut, steps, lastCall, skipped, g, rg, lastBack, stateUp,
            newU, bt>>

blockVars == <<enc, blockRes>>

focusVars == <<focus, focusIn, focusRes>>

smVars == <<smIn, smOut, smMid>>

vars == <<ibVars, blockVars, focusVars, smVars>>

----------------------------------------------------------------------------
(* Bounds of the model. *)

MaxLanes == 2
MaxLen == 3
MaxResIn == 2
Mod == 3
MaxSmLanes == 2
MaxSmLen == 2
ExpRange == 3
MaxBatch == 2

(* The start of the running maximum in maxPerSeq. *)
Sentinel == -10000

(* The size of the decoder's visible output: the LSTM of the tests has 4   *)
(* outputs, 3 of which are the query.                                      *)
OutSize == 1

Nil == "nil"

----------------------------------------------------------------------------
(* Vectors. *)

Zeros(n) == [k \in 1..n |-> 0]

RECURSIVE HashTo(_, _)
HashTo(v, k) == IF k = 0 THEN 0 ELSE HashTo(v, k - 1) + k * v[k]

(* A position-sensitive digest of a vector. *)
Hash(v) == HashTo(v, Len(v)) % Mod

(* v[lo:hi] of Go, 0-based and half-open, as a 1-based sequence. *)
Slice(v, lo, hi) == [k \in 1..(hi - lo) |-> v[lo + k]]

VecAdd(a, b) == [k \in 1..Len(a) |-> (a[k] + b[k]) % Mod]

----------------------------------------------------------------------------
(* The collaborators. *)

(* rnn.Block of the decoder: its start state. *)
InnerStart == 0

(* rnn.Block.ApplyBlock of the decoder, for one lane: the next state. *)
InnerState(st, x) == (2 * st + Hash(x) + 1) % Mod

(* rnn.Block.ApplyBlock of the decoder, for one lane: the raw output, of   *)
(* ResInSize + OutSize components.                                         *)
InnerOut(st, x) ==
    [k \in 1..(ResInSize + OutSize) |-> (InnerState(st, x) + k * Hash(x) + k) % Mod]

(* The R-output of the decoder for one lane. *)
InnerROut(st, x, rx) ==
    [k \in 1..(ResInSize + OutSize) |-> (st + Hash(x) + k * Hash(rx) + 1) % Mod]

(* autofunc.RFunc.Apply of resource r on a query. *)
ResApply(r, q) == <<(r + Hash(q)) % Mod>>

(* autofunc.RFunc.ApplyR of resource r: the R-output. *)
ResApplyR(r, q, rq) == <<(2 * r + Hash(q) + Hash(rq)) % Mod>>

----------------------------------------------------------------------------
(* interfacerBlock: the forward step. *)

(* interfacerBlock.StartState and StartRState. *)
StartState == [phase |-> "Initial", Inner |-> InnerStart]

Panicked == [panic |-> TRUE]

(* A first step that does not compare the batch with the resources. *)
FirstBatchUnchecked(s) == FALSE

(* The check ApplyBlock makes when its first state is an initial state. *)
FirstBatchMismatch(s) == Len(s) # Len(Resources)

(* ApplyBlock, first step: every initial state becomes a running state    *)
(* bound to the resource of its index, with a zero query.  The type       *)
(* assertion on a state that is not initial panics, and so does an index  *)
(* past the resources.                                                    *)
BindStates(s) ==
    IF \E j \in 1..Len(s) : s[j].phase # "Initial" \/ j > Len(Resources)
    THEN [ok |-> FALSE, s |-> <<>>]
    ELSE [ok |-> TRUE,
          s  |-> [j \in 1..Len(s) |->
                    [phase |-> "Running", Inner |-> s[j].Inner,
                     Resource |-> Resources[j], Query |-> Zeros(ResInSize)]]]

(* ApplyBlockR, first step: as BindStates, with a zero RQuery. *)
BindRStates(s) ==
    IF \E j \in 1..Len(s) : s[j].phase # "Initial" \/ j > Len(Resources)
    THEN [ok |-> FALSE, s |-> <<>>]
    ELSE [ok |-> TRUE,
          s  |-> [j \in 1..Len(s) |->
                    [phase |-> "Running", Inner |-> s[j].Inner,
                     Resource |-> Resources[j], Query |-> Zeros(ResInSize),
                     RQuery |-> Zeros(ResInSize)]]]

(* A returned state that wraps the decoder's new state as an initial     *)
(* state again.                                                           *)
OutStateInitial(old, inner, v) == [phase |-> "Initial", Inner |-> inner]

(* A returned state bound anew, to the first resource. *)
OutStateRebound(old, inner, v) ==
    [phase |-> "Running", Inner |-> inner, Resource |-> Resources[1],
     Query |-> Slice(v, 0, ResInSize)]

(* A returned state that is a running one for the lane of the first       *)
(* resource only, and an initial one for every other lane.                *)
OutStateFirstOnly(old, inner, v) ==
    IF old.Resource = Resources[1]
    THEN [phase |-> "Running", Inner |-> inner, Resource |-> old.Resource,
          Query |-> Slice(v, 0, ResInSize)]
    ELSE [phase |-> "Initial", Inner |-> inner]

(* The state ApplyBlock returns for a lane: the decoder's new state, the  *)
(* resource of the lane's old state and the query cut from the raw        *)
(* output v.                                                              *)
OutState(old, inner, v) ==
    [phase |-> "Running", Inner |-> inner, Resource |-> old.Resource,
     Query |-> Slice(v, 0, ResInSize)]

(* The state ApplyBlockR returns for a lane. *)
OutRState(old, inner, v, vR) ==
    [phase |-> "Running", Inner |-> inner, Resource |-> old.Resource,
     Query |-> Slice(v, 0, ResInSize), RQuery |-> Slice(vR, 0, ResInSize)]

OutVecWhole(v) == v

(* The visible output ApplyBlock cuts from the raw output v. *)
OutVec(v) == Slice(v, ResInSize, Len(v))

(* interfacerBlock.ApplyBlock on the states s and the inputs in of the    *)
(* lanes of one timestep.  Only the first state tells whether this is the *)
(* first step; the type assertions panic on any state of the other phase. *)
ApplyBlock(s, in) ==
    LET first == s[1].phase = "Initial"
        bound == IF first THEN BindStates(s) ELSE [ok |-> TRUE, s |-> s]
        s1    == bound.s
        n     == Len(s1)
    IN  IF first /\ FirstBatchMismatch(s) THEN Panicked
        ELSE IF ~bound.ok THEN Panicked
        ELSE IF \E j \in 1..n : s1[j].phase # "Running" THEN Panicked
        ELSE
          LET pool        == [j \in 1..n |-> s1[j].Query]
              joinedIns   == [j \in 1..n |->
                                ResApply(s1[j].Resource, pool[j]) \o in[j]]
              innerStates == [j \in 1..n |-> s1[j].Inner]
              outs        == [j \in 1..n |-> InnerOut(innerStates[j], joinedIns[j])]
          IN  [panic     |-> FALSE,
               ReqSize   |-> ResInSize,
               Bound     |-> s1,
               JoinedIns |-> joinedIns,
               QueryPool |-> pool,
               OutStates |-> [j \in 1..n |->
                                OutState(s1[j],
                                         InnerState(innerStates[j], joinedIns[j]),
                                         outs[j])],
               OutVecs   |-> [j \in 1..n |-> OutVec(outs[j])]]

(* interfacerBlock.ApplyBlockR: ApplyBlock with the R-outputs carried     *)
(* along (inR are the R-vectors of the inputs).                           *)
ApplyBlockR(s, in, inR) ==
    LET first == s[1].phase = "Initial"
        bound == IF first THEN BindRStates(s) ELSE [ok |-> TRUE, s |-> s]
        s1    == bound.s
        n     == Len(s1)
    IN  IF first /\ FirstBatchMismatch(s) THEN Panicked
        ELSE IF ~bound.ok THEN Panicked
        ELSE IF \E j \in 1..n : s1[j].phase # "Running" THEN Panicked
        ELSE
          LET pool        == [j \in 1..n |-> s1[j].Query]
              joinedIns   == [j \in 1..n |->
                                ResApply(s1[j].Resource, pool[j]) \o in[j]]
              joinedInsR  == [j \in 1..n |->
                                ResApplyR(s1[j].Resource, pool[j], s1[j].RQuery)
                                    \o inR[j]]
              innerStates == [j \in 1..n |-> s1[j].Inner]
              outs        == [j \in 1..n |-> InnerOut(innerStates[j], joinedIns[j])]
              rOuts       == [j \in 1..n |->
                                InnerROut(innerStates[j], joinedIns[j], joinedInsR[j])]
          IN  [panic     |-> FALSE,
               ReqSize   |-> ResInSize,
               Bound     |-> s1,
               JoinedIns |-> joinedIns,
               QueryPool |-> pool,
               OutStates |-> [j \in 1..n |->
                                OutRState(s1[j],
                                          InnerState(innerStates[j], joinedIns[j]),
                                          outs[j], rOuts[j])],
               OutVecs   |-> [j \in 1..n |-> OutVec(outs[j])],
               ROutVecs  |-> [j \in 1..n |-> OutVec(rOuts[j])]]

----------------------------------------------------------------------------
(* ibResult and ibRResult: the backward step. *)

(* A nil rnn.StateGrad. *)
NilGrad == [nil |-> TRUE]

(* The variables a gradient accumulator is keyed by: the parameters of    *)
(* the decoder (W) and of the resources (A), and the query variable that  *)
(* the ApplyBlock call of step t pooled for its lane j.                   *)
ParamW == <<"W", 0, 0>>
ParamA == <<"A", 0, 0>>
PoolKey(t, j) == <<"pool", t, j>>

(* autofunc's rule: a gradient is added to the entries that exist. *)
AddGrad(m, key, v) ==
    IF key \in DOMAIN m THEN [m EXCEPT ![key] = VecAdd(@, v)] ELSE m

(* The decoder's backward pass (rnn.BlockResult.PropagateGradient), lane   *)
(* j: a digest of the gradient that reaches the joined input.              *)
JoinedGrad(r, j, innerUp, innerStateUp) ==
    (Hash(innerUp[j]) + innerStateUp[j] + Hash(r.JoinedIns[j]) + 1) % Mod

(* The decoder's backward pass over lanes 1..j: what it adds to the       *)
(* accumulator m, through the joined inputs, for the parameters and for   *)
(* the pooled queries of step t.                                          *)
RECURSIVE InnerBackTo(_, _, _, _, _, _)
InnerBackTo(r, t, innerUp, innerStateUp, m, j) ==
    IF j = 0 THEN m
    ELSE LET m0  == InnerBackTo(r, t, innerUp, innerStateUp, m, j - 1)
             d   == JoinedGrad(r, j, innerUp, innerStateUp)
             res == r.Bound[j].Resource
             m1  == AddGrad(m0, ParamW, <<d>>)
             m2  == AddGrad(m1, ParamA, <<(d + res) % Mod>>)
         IN  AddGrad(m2, PoolKey(t, j),
                     [k \in 1..Len(r.QueryPool[j]) |-> (d + k + res) % Mod])

(* The decoder's backward pass, lane j: the gradient of its old state. *)
InnerDown(r, j, innerUp, innerStateUp) ==
    (2 * JoinedGrad(r, j, innerUp, innerStateUp) + r.Bound[j].Inner) % Mod

(* The query part without the zero vector of a lane with no state         *)
(* gradient.                                                              *)
QueryUpNil(r, sg) == IF sg.nil THEN <<>> ELSE sg.UpstreamQuery

(* The query part with the gradient from the lane's next step dropped. *)
QueryUpZero(r, sg) == Zeros(r.ReqSize)

(* The query part of the raw-output gradient of a lane: zero when the     *)
(* lane has no downstream state gradient.                                 *)
QueryUp(r, sg) == IF sg.nil THEN Zeros(r.ReqSize) ELSE sg.UpstreamQuery

(* The R-query part of the raw-output gradient of a lane. *)
RQueryUp(r, sg) == IF sg.nil THEN Zeros(r.ReqSize) ELSE sg.RUpstreamQuery

(* The output part of the raw-output gradient of lane j: the upstream     *)
(* vector, or zeros when no upstream is given (u is nil).                 *)
OutUp(r, u, j) == IF u # <<>> THEN u[j] ELSE Zeros(Len(r.OutVecs[j]))

(* The accumulator with a zero entry for every pooled query of step t. *)
WithPool(r, t, m) ==
    LET keys == {PoolKey(t, j) : j \in 1..Len(r.QueryPool)}
    IN  [k \in (DOMAIN m) \cup keys |->
            IF k \in keys THEN Zeros(Len(r.QueryPool[k[3]])) ELSE m[k]]

(* A backward step that leaves the pooled entries in the accumulator. *)
DeleteNothing(m, keys) == m

(* delete(g, v) for every pooled query variable v. *)
DeletePool(m, keys) == [k \in (DOMAIN m) \ keys |-> m[k]]

(* ibResult.PropagateGradient of the result r of step t: u is the         *)
(* upstream of the outputs (<<>> for nil), s the downstream state         *)
(* gradients (<<>> for nil), gg the accumulator.                          *)
PropagateGradient(r, t, u, s, gg) ==
    LET n            == Len(r.OutVecs)
        s1           == IF s = <<>> THEN [j \in 1..n |-> NilGrad] ELSE s
        innerStateUp == [j \in 1..n |-> IF s1[j].nil THEN 0 ELSE s1[j].Inner]
        innerUp      == [j \in 1..n |-> QueryUp(r, s1[j]) \o OutUp(r, u, j)]
        keys         == {PoolKey(t, j) : j \in 1..n}
        g2           == InnerBackTo(r, t, innerUp, innerStateUp,
                                    WithPool(r, t, gg.m), n)
    IN  IF gg.nil THEN Panicked
        ELSE [panic   |-> FALSE,
              innerUp |-> innerUp,
              down    |-> [j \in 1..n |->
                             [nil |-> FALSE,
                              Inner |-> InnerDown(r, j, innerUp, innerStateUp),
                              UpstreamQuery |-> g2[PoolKey(t, j)]]],
              g       |-> [nil |-> FALSE, m |-> DeletePool(g2, keys)],
              rg      |-> <<>>]

(* ibRResult.PropagateRGradient: a nil g is replaced by a map of the      *)
(* call's own, which the caller never sees.                               *)
PropagateRGradient(r, t, u, uR, s, rgg, gg) ==
    LET n            == Len(r.OutVecs)
        s1           == IF s = <<>> THEN [j \in 1..n |-> NilGrad] ELSE s
        innerStateUp == [j \in 1..n |-> IF s1[j].nil THEN 0 ELSE s1[j].Inner]
        innerUp      == [j \in 1..n |-> QueryUp(r, s1[j]) \o OutUp(r, u, j)]
        innerUpR     == [j \in 1..n |-> RQueryUp(r, s1[j]) \o OutUp(r, uR, j)]
        keys         == {PoolKey(t, j) : j \in 1..n}
        g2           == InnerBackTo(r, t, innerUp, innerStateUp,
                                    WithPool(r, t, gg.m), n)
        rg2          == InnerBackTo(r, t, innerUpR, innerStateUp,
                                    WithPool(r, t, rgg), n)
    IN  [panic   |-> FALSE,
         innerUp |-> innerUp,
         down    |-> [j \in 1..n |->
                        [nil |-> FALSE,
                         Inner |-> InnerDown(r, j, innerUp, innerStateUp),
                         UpstreamQuery |-> g2[PoolKey(t, j)],
                         RUpstreamQuery |-> rg2[PoolKey(t, j)]]],
         g       |-> IF gg.nil THEN gg
                     ELSE [nil |-> FALSE, m |-> DeletePool(g2, keys)],
         rg      |-> DeletePool(rg2, keys)]

----------------------------------------------------------------------------
(* skipFirstResult and skipFirstRResult. *)

(* x[:len(x)-1]: the last timestep dropped instead of the first. *)
SkipLast(x) == Slice(x, 0, Len(x) - 1)

(* x[1:] *)
SkipFirst(x) == Slice(x, 1, Len(x))

(* newSkipFirstResult: x[1:] of an empty lane panics. *)
newSkipFirstResult(outs) ==
    IF \E i \in 1..Len(outs) : Len(outs[i]) = 0 THEN Panicked
    ELSE [panic |-> FALSE,
          Skipped  |-> [i \in 1..Len(outs) |-> SkipFirst(outs[i])],
          RSkipped |-> <<>>]

(* newSkipFirstRResult *)
newSkipFirstRResult(outs, outsR) ==
    IF \E i \in 1..Len(outs) : Len(outs[i]) = 0 THEN Panicked
    ELSE [panic |-> FALSE,
          Skipped  |-> [i \in 1..Len(outs) |-> SkipFirst(outs[i])],
          RSkipped |-> [i \in 1..Len(outs) |-> SkipFirst(outsR[i])]]

(* The zero vector put behind the caller's upstream instead of in front. *)
ZeroLastUpstream(outs, u) ==
    [i \in 1..Len(u) |-> u[i] \o <<Zeros(Len(outs[i][1]))>>]

(* skipFirstResult.PropagateGradient: the upstream it hands to the        *)
(* wrapped result, whose outputs are outs.                                *)
SkipFirstUpstream(outs, u) ==
    [i \in 1..Len(u) |-> <<Zeros(Len(outs[i][1]))>> \o u[i]]

----------------------------------------------------------------------------
(* rnn.BlockSeqFunc driving the block over the lanes of decIn, as          *)
(* SoftAlign.Apply has it do.                                             *)

cfgVars == <<Resources, ResInSize, StartQuery, decIn, rmode>>

Lanes == 1..Len(decIn)

(* The lanes present at timestep t (0-based), in lane order. *)
Active(t) == SelectSeq([l \in Lanes |-> l], LAMBDA l : Len(decIn[l]) > t)

(* The place of lane l among lanes, 0 when it is not one of them. *)
IndexOf(lanes, l) ==
    IF \E j \in 1..Len(lanes) : lanes[j] = l
    THEN CHOOSE j \in 1..Len(lanes) : lanes[j] = l
    ELSE 0

NoCall == [n |-> 0, phases |-> <<>>, panic |-> FALSE]

NoSkipped == [Skipped |-> <<>>, RSkipped |-> <<>>]

(* A gradient accumulator is a Go map: nil, or a map m from variables to  *)
(* vectors.                                                               *)
NilGradient == [nil |-> TRUE, m |-> <<>>]

(* No upstream: none handed to the wrapped result yet (by "none"), or a   *)
(* nil one from a caller of the steps' results.                           *)
NoUpstream == [by |-> "none", nil |-> TRUE, u |-> <<>>, U |-> <<>>, UR |-> <<>>]

NoBack == [step |-> 0, pool |-> {}, before |-> {}, rbefore |-> {},
           lanes |-> <<>>, innerUp |-> <<>>, u |-> <<>>, s |-> <<>>,
           down |-> <<>>]

(* SoftAlign.Apply / ApplyR up to the first ApplyBlock call: one resource *)
(* per encoded lane, every lane of decIn in the block's start state.      *)
IBInit ==
    /\ \E n \in 1..MaxLanes : Resources = [i \in 1..n |-> i]
    /\ ResInSize \in {1, MaxResIn}
    /\ \E q \in 0..1 : StartQuery = [k \in 1..ResInSize |-> q]
    /\ \E m \in 1..MaxLanes, seed \in 0..1 :
         \E lens \in [1..m -> 0..MaxLen] :
            decIn = [l \in 1..m |->
                       [t \in 1..lens[l] |-> <<(seed + l + t) % Mod>>]]
    /\ rmode \in BOOLEAN
    /\ pc = "seq"
    /\ states = [l \in Lanes |-> StartState]
    /\ packedOut = [l \in Lanes |-> <<>>]
    /\ steps = <<>>
    /\ lastCall = NoCall
    /\ skipped = NoSkipped
    /\ g = NilGradient
    /\ rg = <<>>
    /\ lastBack = NoBack
    /\ stateUp = <<>>
    /\ newU = NoUpstream
    /\ bt = 0

(* One round of BlockSeqFunc's loop: ApplyBlock on the lanes that still   *)
(* have an input at this timestep.                                        *)
Step ==
    /\ pc = "seq"
    /\ LET t     == Len(steps)
           lanes == Active(t)
       IN  /\ lanes # <<>>
           /\ LET s   == [j \in 1..Len(lanes) |-> states[lanes[j]]]
                  in  == [j \in 1..Len(lanes) |-> decIn[lanes[j]][t + 1]]
                  inR == [j \in 1..Len(lanes) |-> Zeros(Len(in[j]))]
                  res == IF rmode THEN ApplyBlockR(s, in, inR)
                                  ELSE ApplyBlock(s, in)
              IN  /\ lastCall' = [n      |-> Len(s),
                                  phases |-> [j \in 1..Len(s) |-> s[j].phase],
                                  panic  |-> res.panic]
                  /\ IF res.panic
                     THEN /\ pc' = "panic"
                          /\ UNCHANGED <<states, packedOut, steps>>
                     ELSE /\ pc' = "seq"
                          /\ states' =
                               [l \in Lanes |->
                                  IF IndexOf(lanes, l) # 0
                                  THEN res.OutStates[IndexOf(lanes, l)]
                                  ELSE states[l]]
                          /\ packedOut' =
                               [l \in Lanes |->
                                  IF IndexOf(lanes, l) # 0
                                  THEN Append(packedOut[l],
                                              res.OutVecs[IndexOf(lanes, l)])
                                  ELSE packedOut[l]]
                          /\ steps' = Append(steps, [lanes |-> lanes, res |-> res])
    /\ UNCHANGED <<blockVars, focusVars, smVars, cfgVars, skipped, g, rg, lastBack, stateUp, newU, bt>>

(* BlockSeqFunc's loop ends when no lane has an input left. *)
EndSeqs ==
    /\ pc = "seq"
    /\ Active(Len(steps)) = <<>>
    /\ pc' = "skip"
    /\ UNCHANGED <<blockVars, focusVars, smVars, cfgVars, states, packedOut, steps, lastCall, skipped, g,
                   rg, lastBack, stateUp, newU, bt>>

(* The R-outputs BlockSeqFunc has packed for lane l. *)
ROutSeq(l) ==
    [t \in 1..Len(packedOut[l]) |->
        steps[t].res.ROutVecs[IndexOf(steps[t].lanes, l)]]

(* SoftAlign.Apply / ApplyR wrap the block's result. *)
NewSkipFirst ==
    /\ pc = "skip"
    /\ LET res == IF rmode
                  THEN newSkipFirstRResult(packedOut, [l \in Lanes |-> ROutSeq(l)])
                  ELSE newSkipFirstResult(packedOut)
       IN  IF res.panic
           THEN pc' = "panic" /\ UNCHANGED skipped
           ELSE /\ pc' = "out"
                /\ skipped' = [Skipped |-> res.Skipped, RSkipped |-> res.RSkipped]
    /\ UNCHANGED <<blockVars, focusVars, smVars, cfgVars, states, packedOut, steps, lastCall, g, rg,
                   lastBack, stateUp, newU, bt>>

(* The SoftAlign.Apply (ApplyR) that takes a start query returns the      *)
(* result of BlockSeqFunc as it is.                                       *)
ReturnSeqs ==
    /\ pc = "skip"
    /\ pc' = "ret"
    /\ UNCHANGED <<blockVars, focusVars, smVars, cfgVars, states, packedOut, steps, lastCall, skipped, g,
                   rg, lastBack, stateUp, newU, bt>>

(* The caller propagates a gradient through the result of Apply:          *)
(* skipFirstResult.PropagateGradient (PropagateRGradient) builds the      *)
(* upstream of the wrapped result, and BlockSeqFunc starts at the last    *)
(* step with no state gradient for any lane.                              *)
SkipFirstPropagate ==
    /\ pc = "out"
    /\ \E uv \in 1..2, keys \in {{}, {ParamW, ParamA}}, gnil \in BOOLEAN :
         /\ gnil => rmode /\ keys # {}
         /\ LET u == [i \in Lanes |->
                        [t \in 1..Len(skipped.Skipped[i]) |->
                            [k \in 1..OutSize |-> (uv + i + t) % Mod]]]
            IN  newU' = [by  |-> "skipFirst",
                         nil |-> FALSE,
                         u   |-> u,
                         U   |-> SkipFirstUpstream(packedOut, u),
                         UR  |-> IF rmode THEN SkipFirstUpstream(packedOut, u)
                                          ELSE <<>>]
         /\ g' = IF gnil THEN NilGradient
                         ELSE [nil |-> FALSE, m |-> [k \in keys |-> <<0>>]]
         /\ rg' = IF rmode THEN [k \in keys |-> <<0>>] ELSE <<>>
    /\ stateUp' = [l \in Lanes |-> NilGrad]
    /\ bt' = Len(steps)
    /\ pc' = "back"
    /\ UNCHANGED <<blockVars, focusVars, smVars, cfgVars, states, packedOut, steps, lastCall, skipped,
                   lastBack>>

(* A caller propagates state gradients only through the steps' results:  *)
(* every PropagateGradient (PropagateRGradient) call gets a nil u, and    *)
(* the last step no state gradient for any lane.                          *)
NilUpstreamPropagate ==
    /\ pc = "out"
    /\ newU' = [NoUpstream EXCEPT !.by = "caller"]
    /\ g' = [nil |-> FALSE, m |-> [k \in {ParamW, ParamA} |-> <<0>>]]
    /\ rg' = IF rmode THEN [k \in {ParamW, ParamA} |-> <<0>>] ELSE <<>>
    /\ stateUp' = [l \in Lanes |-> NilGrad]
    /\ bt' = Len(steps)
    /\ pc' = "back"
    /\ UNCHANGED <<blockVars, focusVars, smVars, cfgVars, states, packedOut, steps, lastCall, skipped,
                   lastBack>>

(* One round of the backward loop: the result of step bt propagates the   *)
(* upstream, if there is one, and the state gradients of its lanes.       *)
BackStep ==
    /\ pc = "back"
    /\ bt > 0
    /\ LET st    == steps[bt]
           lanes == st.lanes
           u     == IF newU.nil THEN <<>>
                    ELSE [j \in 1..Len(lanes) |-> newU.U[lanes[j]][bt]]
           uR    == IF rmode /\ ~newU.nil
                    THEN [j \in 1..Len(lanes) |-> newU.UR[lanes[j]][bt]]
                    ELSE <<>>
           s     == [j \in 1..Len(lanes) |-> stateUp[lanes[j]]]
           out   == IF rmode THEN PropagateRGradient(st.res, bt, u, uR, s, rg, g)
                             ELSE PropagateGradient(st.res, bt, u, s, g)
       IN  IF out.panic
           THEN pc' = "panic" /\ UNCHANGED <<g, rg, lastBack, stateUp, bt>>
           ELSE /\ pc' = "back"
                /\ g' = out.g
                /\ rg' = out.rg
                /\ lastBack' = [step    |-> bt,
                                pool    |-> {PoolKey(bt, j) : j \in 1..Len(lanes)},
                                before  |-> DOMAIN g.m,
                                rbefore |-> DOMAIN rg,
                                lanes   |-> lanes,
                                innerUp |-> out.innerUp,
                                u       |-> u,
                                s       |-> s,
                                down    |-> out.down]
                /\ stateUp' = [l \in Lanes |->
                                 IF IndexOf(lanes, l) # 0
                                 THEN out.down[IndexOf(lanes, l)]
                                 ELSE stateUp[l]]
                /\ bt' = bt - 1
    /\ UNCHANGED <<blockVars, focusVars, smVars, cfgVars, states, packedOut, steps, lastCall, skipped, newU>>

(* interfacerBlock.PropagateStart / PropagateStartR, which ends            *)
(* BlockSeqFunc's backward pass: the type assertion on a nil state         *)
(* gradient panics; the decoder's start state receives the inner          *)
(* gradients.                                                             *)
PropagateStart ==
    /\ pc = "back"
    /\ bt = 0
    /\ IF \E l \in Lanes : stateUp[l].nil
       THEN pc' = "panic" /\ UNCHANGED g
       ELSE /\ pc' = "done"
            /\ g' = IF g.nil THEN g
                    ELSE [g EXCEPT !.m =
                            AddGrad(@, ParamW,
                                    <<Hash([l \in Lanes |-> stateUp[l].Inner])>>)]
    /\ UNCHANGED <<blockVars, focusVars, smVars, cfgVars, states, packedOut, steps, lastCall, skipped, rg,
                   lastBack, stateUp, newU, bt>>

IBNext == Step \/ EndSeqs \/ NewSkipFirst \/ ReturnSeqs \/ SkipFirstPropagate
            \/ NilUpstreamPropagate \/ BackStep \/ PropagateStart


----------------------------------------------------------------------------
(* Numbers of the sequence softmax and of the focus function: floats of    *)
(* limited range.  A finite value is held exactly, as the fraction n/d in  *)
(* lowest terms; Inf is +Inf and NaN is not-a-number.  Exponents are       *)
(* integers and the base is 2: FExp underflows to zero below -ExpRange and *)
(* overflows to +Inf above ExpRange, as the exponential of a float does    *)
(* outside the float's range.  Only values >= 0 arise.                     *)

RECURSIVE GCD(_, _)
GCD(a, b) == IF b = 0 THEN a ELSE GCD(b, a % b)

Fin(n, d) == [k |-> "fin", n |-> n \div GCD(n, d), d |-> d \div GCD(n, d)]

Inf == [k |-> "inf"]

NaN == [k |-> "nan"]

FZero == Fin(0, 1)

FOne == Fin(1, 1)

RECURSIVE Pow2(_)
Pow2(e) == IF e = 0 THEN 1 ELSE 2 * Pow2(e - 1)

FExp(x) ==
    IF x < -ExpRange THEN FZero
    ELSE IF x > ExpRange THEN Inf
    ELSE IF x >= 0 THEN Fin(Pow2(x), 1)
    ELSE Fin(1, Pow2(-x))

FAdd(a, b) ==
    IF a.k = "nan" \/ b.k = "nan" THEN NaN
    ELSE IF a.k = "inf" \/ b.k = "inf" THEN Inf
    ELSE Fin(a.n * b.d + b.n * a.d, a.d * b.d)

FMul(a, b) ==
    IF a.k = "nan" \/ b.k = "nan" THEN NaN
    ELSE IF a.k = "inf" THEN (IF b.k = "fin" /\ b.n = 0 THEN NaN ELSE Inf)
    ELSE IF b.k = "inf" THEN (IF a.n = 0 THEN NaN ELSE Inf)
    ELSE Fin(a.n * b.n, a.d * b.d)

(* 1 / a *)
FInv(a) ==
    IF a.k = "nan" THEN NaN
    ELSE IF a.k = "inf" THEN FZero
    ELSE IF a.n = 0 THEN Inf
    ELSE Fin(a.d, a.n)

RECURSIVE FSumTo(_, _)
FSumTo(v, k) == IF k = 0 THEN FZero ELSE FAdd(FSumTo(v, k - 1), v[k])

(* The sum of the components of a sequence of numbers. *)
FSum(v) == FSumTo(v, Len(v))

IntMax(a, b) == IF a >= b THEN a ELSE b

----------------------------------------------------------------------------
(* seqSoftmax.  A batch of scalar sequences is held as its lanes; the      *)
(* anyseq.Seq of it is the list of its timesteps, each with the lanes      *)
(* present at it and their values packed in lane order.  All lanes are     *)
(* non-empty.                                                              *)

(* The lanes of the batch present at timestep t (1-based), in lane order. *)
PresentAt(lanes, t) ==
    SelectSeq([l \in 1..Len(lanes) |-> l], LAMBDA l : Len(lanes[l]) >= t)

(* The packed values of timestep t. *)
PackedAt(lanes, t) ==
    [j \in 1..Len(PresentAt(lanes, t)) |-> lanes[PresentAt(lanes, t)[j]][t]]

RECURSIVE LongestTo(_, _)
LongestTo(lanes, k) ==
    IF k = 0 THEN 0 ELSE IntMax(LongestTo(lanes, k - 1), Len(lanes[k]))

(* The number of timesteps of the batch. *)
Timesteps(lanes) == LongestTo(lanes, Len(lanes))

(* anyrnn.State.Reduce: the state of the lanes that are still present. *)
Reduce(stVec, stLanes, cur) ==
    [j \in 1..Len(cur) |-> stVec[IndexOf(stLanes, cur[j])]]

(* The Func of the three blocks, for one lane: the value of the step.  The *)
(* Func of maxPerSeq returns a nil output next to its new state, the       *)
(* running maximum; where the library does not dereference the nil output, *)
(* the running maximum is the value of the step.                           *)
BlockOut(kind, x, st) ==
    CASE kind = "max"   -> IntMax(x, st)
      [] kind = "exp"   -> FExp(x - st)
      [] kind = "scale" -> FMul(x, st)

(* The Func of the three blocks, for one lane: its new state. *)
BlockState(kind, x, st) ==
    CASE kind = "max"   -> IntMax(x, st)
      [] kind = "exp"   -> st
      [] kind = "scale" -> st

(* anyrnn.Map from timestep t on: the state vector stVec belongs to the    *)
(* lanes stLanes and is reduced when lanes have ended.                     *)
RECURSIVE MapSteps(_, _, _, _, _)
MapSteps(kind, lanes, t, stLanes, stVec) ==
    IF t > Timesteps(lanes) THEN <<>>
    ELSE LET cur == PresentAt(lanes, t)
             st  == IF Len(cur) # Len(stLanes) THEN Reduce(stVec, stLanes, cur)
                                               ELSE stVec
             in  == PackedAt(lanes, t)
         IN  <<[Present |-> cur,
                Packed  |-> [j \in 1..Len(cur) |-> BlockOut(kind, in[j], st[j])]]>>
               \o MapSteps(kind, lanes, t + 1, cur,
                           [j \in 1..Len(cur) |-> BlockState(kind, in[j], st[j])])

(* The lanes of a list of timesteps. *)
Unpack(batches, n) ==
    [l \in 1..n |->
        [t \in 1..Cardinality({u \in 1..Len(batches) :
                                  IndexOf(batches[u].Present, l) # 0}) |->
            batches[t].Packed[IndexOf(batches[t].Present, l)]]]

(* anyrnn.Map of a block over the batch, from the start state start. *)
Map(kind, lanes, start) ==
    Unpack(MapSteps(kind, lanes, 1, [l \in 1..Len(lanes) |-> l], start),
           Len(lanes))

(* anyseq.Tail: the last value of every lane. *)
SeqTail(lanes) == [l \in 1..Len(lanes) |-> lanes[l][Len(lanes[l])]]

(* anyseq.SumEach: the sum of every lane. *)
SumEach(lanes) == [l \in 1..Len(lanes) |-> FSum(lanes[l])]

SmPanicked == [panic |-> TRUE, seq |-> <<>>]

(* maxPerSeq: the running maximum of every lane, started at the sentinel.  *)
(* The Func of its block returns nil as its output: the call panics where  *)
(* the library dereferences the output of a step (deref), and yields the   *)
(* maxima where it does not.                                               *)
maxPerSeq(rawOuts, deref) ==
    IF deref THEN [panic |-> TRUE, v |-> <<>>]
    ELSE [panic |-> FALSE,
          v |-> SeqTail(Map("max", rawOuts,
                            [l \in 1..Len(rawOuts) |-> Sentinel]))]

(* subAndExp: MakeStart panics when maxes is not of the batch's size. *)
subAndExp(rawOuts, maxes) ==
    IF Len(rawOuts) # Len(maxes) THEN SmPanicked
    ELSE [panic |-> FALSE, seq |-> Map("exp", rawOuts, maxes)]

(* applyScalers: MakeStart panics when scalers is not of the batch's size. *)
applyScalers(seq, scalers) ==
    IF Len(seq) # Len(scalers) THEN SmPanicked
    ELSE [panic |-> FALSE, seq |-> Map("scale", seq, scalers)]

(* anydiff.Div(ones, sum): the reciprocal of every lane's sum. *)
Scalers(exps) ==
    LET sum == SumEach(exps)
    IN  [l \in 1..Len(sum) |-> FMul(FOne, FInv(sum[l]))]

(* The rest of seqSoftmax, from the maxima on. *)
SoftmaxFrom(seq, maxes) ==
    LET exps == subAndExp(seq, maxes)
    IN  IF exps.panic THEN SmPanicked
        ELSE applyScalers(exps.seq, Scalers(exps.seq))

(* seqSoftmax *)
seqSoftmax(seq, deref) ==
    LET maxes == maxPerSeq(seq, deref)
    IN  IF maxes.panic THEN SmPanicked ELSE SoftmaxFrom(seq, maxes.v)

(* The values of the batches: a value so far below the sentinel that its   *)
(* exponential relative to the sentinel is zero, and two ordinary values.  *)
SmVals == {Sentinel - ExpRange - 1, 0, 1}

NoSoftmax == [panic |-> FALSE, seq |-> <<>>]

NoMid == [maxes |-> <<>>, exps |-> <<>>, scalers |-> <<>>]

(* The values seqSoftmax computes on its way: maxes, exps and scalers. *)
SoftmaxMid(seq, deref) ==
    LET maxes == maxPerSeq(seq, deref)
        exps  == subAndExp(seq, maxes.v)
    IN  IF maxes.panic THEN NoMid
        ELSE IF exps.panic THEN [NoMid EXCEPT !.maxes = maxes.v]
        ELSE [maxes |-> maxes.v, exps |-> exps.seq,
              scalers |-> Scalers(exps.seq)]

SmIdle == smIn = <<>> /\ smOut = NoSoftmax /\ smMid = NoMid

(* A batch of 1..MaxSmLanes lanes of 1..MaxSmLen values each. *)
SmInit ==
    /\ \E n \in 1..MaxSmLanes :
         smIn \in [1..n -> UNION {[1..k -> SmVals] : k \in 1..MaxSmLen}]
    /\ smOut = NoSoftmax
    /\ smMid = NoMid

(* seqSoftmax is applied to the batch.  The library under anyrnn.Map is    *)
(* not part of the repository: both ways it can treat the nil output of    *)
(* the block of maxPerSeq are taken.                                       *)
SmApply ==
    /\ smOut = NoSoftmax
    /\ \E deref \in BOOLEAN :
          /\ smOut' = seqSoftmax(smIn, deref)
          /\ smMid' = SoftmaxMid(smIn, deref)
    /\ UNCHANGED <<ibVars, blockVars, focusVars, smIn>>

(* The true maximum of the values x[1..k]. *)
RECURSIVE TrueMaxTo(_, _)
TrueMaxTo(x, k) == IF k = 1 THEN x[1] ELSE IntMax(TrueMaxTo(x, k - 1), x[k])

(* The closed-form softmax of one lane's values: the exponential of each   *)
(* value over the sum of the exponentials, taken relative to the lane's    *)
(* own maximum.                                                            *)
ClosedForm(x) ==
    LET m == TrueMaxTo(x, Len(x))
        e == [t \in 1..Len(x) |-> FExp(x[t] - m)]
    IN  [t \in 1..Len(x) |-> FMul(e[t], FInv(FSum(e)))]

----------------------------------------------------------------------------
(* SoftAlign.Block.  The encoded batch is an anyseq.Seq: the list of its   *)
(* timesteps, each with the lanes present at it.  A lane is present at a   *)
(* timestep exactly when it is longer than the timesteps before it.        *)

(* anyseq.Batch.NumPresent *)
NumPresent(b) == Cardinality({l \in 1..Len(b.Present) : b.Present[l]})

(* The first check of Block. *)
NoInputSequences(e) == Len(e) = 0 \/ NumPresent(e[1]) = 0

NeverEmpty(e) == FALSE

(* The second check of Block. *)
EmptyInputSequence(e) == Len(e[1].Present) # NumPresent(e[1])

(* SoftAlign.Block: a panic, or the softBlock with the batch bound. *)
Block(e) ==
    IF NoInputSequences(e)
    THEN [panic |-> TRUE, msg |-> "cannot have no input sequences",
          Encoded |-> <<>>]
    ELSE IF EmptyInputSequence(e)
    THEN [panic |-> TRUE, msg |-> "cannot have empty input sequence",
          Encoded |-> <<>>]
    ELSE [panic |-> FALSE, msg |-> "", Encoded |-> e]

NoBlock == [panic |-> FALSE, msg |-> "none", Encoded |-> <<>>]

BlockIdle == enc = <<>> /\ blockRes = NoBlock

(* The batch of the lanes of the lengths lens. *)
SeqOfLens(lens) ==
    [t \in 1..LongestTo([l \in 1..Len(lens) |-> [u \in 1..lens[l] |-> 0]],
                        Len(lens)) |->
        [Present |-> [l \in 1..Len(lens) |-> lens[l] >= t]]]

(* A batch of 0..MaxLanes+1 lanes of 0..MaxLen timesteps each. *)
BlockInit ==
    /\ \E n \in 0..(MaxLanes + 1) :
         \E lens \in [1..n -> 0..MaxLen] : enc = SeqOfLens(lens)
    /\ blockRes = NoBlock

(* SoftAlign.Block is called with the batch. *)
BlockCall ==
    /\ blockRes = NoBlock
    /\ blockRes' = Block(enc)
    /\ UNCHANGED <<ibVars, enc, focusVars, smVars>>

----------------------------------------------------------------------------
(* focusFunc.  Encoded and EncodedR are nil or hold the encoded lanes,     *)
(* each a list of vectors; Lane is 0-based.                                *)

(* The Attentor on one augmented vector: the energy of the position.  The *)
(* Attentor is the caller's network; its output layer scales the energy.  *)
Energy(v) == focus.Attentor * (Hash(v) - 1)

AttentorOfJoined(joined, n) == [k \in 1..n |-> Energy(joined)]

(* The Attentor as a batcher: n vectors joined, one energy for each. *)
AttentorBatch(joined, n) ==
    [k \in 1..n |->
        Energy(Slice(joined, (k - 1) * (Len(joined) \div n),
                             k * (Len(joined) \div n)))]

RECURSIVE JoinTo(_, _, _)
JoinTo(vs, from, to) ==
    IF to < from THEN <<>> ELSE JoinTo(vs, from, to - 1) \o vs[to]

(* FixedMapBatcher.ApplySeqs on one lane, from position i (1-based) on:    *)
(* the Attentor is applied to at most bs vectors at a time.                *)
RECURSIVE EnergiesFrom(_, _, _)
EnergiesFrom(aug, i, bs) ==
    IF i > Len(aug) THEN <<>>
    ELSE LET to == IF i + bs - 1 > Len(aug) THEN Len(aug) ELSE i + bs - 1
         IN  AttentorBatch(JoinTo(aug, i, to), to - i + 1)
                \o EnergiesFrom(aug, to + 1, bs)

RECURSIVE AddAllTo(_, _)
AddAllTo(vs, k) ==
    IF k = 1 THEN vs[1]
    ELSE [c \in 1..Len(vs[1]) |-> FAdd(AddAllTo(vs, k - 1)[c], vs[k][c])]

(* seqfunc.AddAll on one lane of at least one vector. *)
AddAll(vs) == AddAllTo(vs, Len(vs))

(* probs of Apply: the exponentials of the energies of the lane's          *)
(* positions, each multiplied by the inverse of their sum.                 *)
FocusProbs(seqs, f, q) ==
    LET e          == seqs[f.Lane + 1]
        augmented  == [t \in 1..Len(e) |-> q \o e[t]]
        BatchSize  == IF f.BatchSize = 0 THEN 1 ELSE f.BatchSize
        energies   == EnergiesFrom(augmented, 1, BatchSize)
        exps       == [t \in 1..Len(e) |-> FExp(energies[t])]
        normalizer == FInv(FSum(exps))
    IN  [t \in 1..Len(e) |-> FMul(exps[t], normalizer)]

(* The body of Apply, and of ApplyR for its output: the weighted sum of    *)
(* the encoded vectors of the lane.  The derivative along rv is not part   *)
(* of the state.                                                           *)
FocusOn(seqs, f, q) ==
    LET e          == seqs[f.Lane + 1]
        probs      == FocusProbs(seqs, f, q)
        masked     == [t \in 1..Len(e) |->
                          [c \in 1..Len(e[t]) |->
                              FMul(Fin(e[t][c], 1), probs[t])]]
    IN  AddAll(masked)

NoEncodedUnchecked(x) == FALSE

(* The check of Apply on Encoded and of ApplyR on EncodedR. *)
NoEncoded(x) == x.nil

NoRelevant ==
    [panic |-> TRUE, msg |-> "no relevant encoded sequence", out |-> <<>>]

(* focusFunc.Apply *)
FocusApplyOf(f, q) ==
    IF NoEncoded(f.Encoded) THEN NoRelevant
    ELSE [panic |-> FALSE, msg |-> "", out |-> FocusOn(f.Encoded.seqs, f, q)]

(* focusFunc.ApplyR *)
FocusApplyROf(f, q) ==
    IF NoEncoded(f.EncodedR) THEN NoRelevant
    ELSE [panic |-> FALSE, msg |-> "", out |-> FocusOn(f.EncodedR.seqs, f, q)]

NoFocus == [called |-> "none", res |-> NoRelevant]

FocusIdle ==
    /\ focus = [Encoded |-> [nil |-> TRUE, seqs |-> <<>>],
                EncodedR |-> [nil |-> TRUE, seqs |-> <<>>],
                Attentor |-> 1, BatchSize |-> 0, Lane |-> 0]
    /\ focusIn = <<>>
    /\ focusRes = NoFocus

(* A focus function on one of 1..MaxLanes encoded lanes of 1..MaxLen       *)
(* vectors each, with either of Encoded and EncodedR bound or not, an      *)
(* Attentor whose energies stay within the range of Exp or leave it, and a *)
(* query.                                                                  *)
FocusInit ==
    /\ \E n \in 1..MaxLanes, seed \in 0..1, a \in {1, ExpRange + 1} :
         \E lens \in [1..n -> 1..MaxLen], lane \in 0..(n - 1),
            bs \in 0..MaxBatch, nilE \in BOOLEAN, nilR \in BOOLEAN :
            LET seqs == [l \in 1..n |->
                           [t \in 1..lens[l] |-> <<(seed + l + t) % Mod>>]]
            IN  focus = [Encoded   |-> [nil |-> nilE, seqs |-> seqs],
                         EncodedR  |-> [nil |-> nilR, seqs |-> seqs],
                         Attentor  |-> a,
                         BatchSize |-> bs,
                         Lane      |-> lane]
    /\ \E q \in 0..1 : focusIn = <<q>>
    /\ focusRes = NoFocus

(* focusFunc.Apply is called with the query. *)
FocusApply ==
    /\ focusRes = NoFocus
    /\ focusRes' = [called |-> "Apply", res |-> FocusApplyOf(focus, focusIn)]
    /\ UNCHANGED <<ibVars, blockVars, focus, focusIn, smVars>>

(* focusFunc.ApplyR is called with the query. *)
FocusApplyR ==
    /\ focusRes = NoFocus
    /\ focusRes' = [called |-> "ApplyR", res |-> FocusApplyROf(focus, focusIn)]
    /\ UNCHANGED <<ibVars, blockVars, focus, focusIn, smVars>>

----------------------------------------------------------------------------
(* The specifications: one for each part of the package, the other parts   *)
(* at rest.                                                                *)

IBIdle ==
    /\ Resources = <<>> /\ ResInSize = 1 /\ StartQuery = <<>>
    /\ decIn = <<>> /\ rmode = FALSE /\ pc = "done"
    /\ states = <<>> /\ packedOut = <<>> /\ steps = <<>>
    /\ lastCall = NoCall /\ skipped = NoSkipped
    /\ g = NilGradient /\ rg = <<>> /\ lastBack = NoBack
    /\ stateUp = <<>> /\ newU = NoUpstream /\ bt = 0

Init == IBInit /\ BlockIdle /\ FocusIdle /\ SmIdle

Next == IBNext

Spec == Init /\ [][Next]_vars

InitBlock == IBIdle /\ BlockInit /\ FocusIdle /\ SmIdle

NextBlock == BlockCall

SpecBlock == InitBlock /\ [][NextBlock]_vars

InitFocus == IBIdle /\ BlockIdle /\ FocusInit /\ SmIdle

NextFocus == FocusApply \/ FocusApplyR

SpecFocus == InitFocus /\ [][NextFocus]_vars

InitSoftmax == IBIdle /\ BlockIdle /\ FocusIdle /\ SmInit

NextSoftmax == SmApply

SpecSoftmax == InitSoftmax /\ [][NextSoftmax]_vars

----------------------------------------------------------------------------
(* The run of one lane alone, as TestInterfacerBlockOutputs computes the   *)
(* expected outputs: from timestep t (1-based) on, with the lane's query   *)
(* and decoder state.                                                     *)
RECURSIVE ExpectedOuts(_, _, _, _)
ExpectedOuts(lane, t, query, state) ==
    IF t > Len(decIn[lane]) THEN <<>>
    ELSE LET blockIn == ResApply(Resources[lane], query) \o decIn[lane][t]
             out     == InnerOut(state, blockIn)
         IN  <<Slice(out, ResInSize, Len(out))>>
                \o ExpectedOuts(lane, t + 1, Slice(out, 0, ResInSize),
                                InnerState(state, blockIn))

(* BlockSeqFunc.ApplySeqs has returned. *)
SeqsDone == pc \in {"skip", "out", "back", "done"}

(* SoftAlign.Apply has returned. *)
ApplyDone == pc \in {"out", "back", "done"}

----------------------------------------------------------------------------
(* The claims about the interfacer block and SoftAlign.Apply.              *)

(* C1: an ApplyBlock or ApplyBlockR call whose states are initial states   *)
(* and whose number of states differs from len(Resources) panics: the run  *)
(* ends there, with no step recorded, no output produced and every lane    *)
(* still in the start state (no lane or resource was cut or padded).       *)
C1_FirstBatchMismatchPanics ==
    ( /\ lastCall.n # 0
      /\ \A j \in 1..lastCall.n : lastCall.phases[j] = "Initial"
      /\ lastCall.n # Len(Resources) )
    => /\ lastCall.panic
       /\ pc = "panic"
       /\ steps = <<>>
       /\ \A l \in Lanes : packedOut[l] = <<>> /\ states[l] = StartState

(* C1's case: a first call with fewer states than resources has panicked. *)
C1_Witness ==
    /\ lastCall.n # 0
    /\ lastCall.phases[1] = "Initial"
    /\ lastCall.n < Len(Resources)
    /\ lastCall.panic

(* C2: a lane's state is initial exactly as long as no ApplyBlock call has *)
(* stepped the lane, and it is then the start state; every state a call    *)
(* returns is a running state; a running state never becomes initial       *)
(* again.                                                                  *)
C2_InitialOnce ==
    /\ [](\A l \in Lanes :
            /\ (states[l].phase = "Initial") <=> (packedOut[l] = <<>>)
            /\ states[l].phase = "Initial" => states[l] = StartState
            /\ states[l].phase \in {"Initial", "Running"})
    /\ [](\A t \in 1..Len(steps) : \A j \in 1..Len(steps[t].lanes) :
            steps[t].res.OutStates[j].phase = "Running")
    /\ [][\A l \in Lanes :
            states[l].phase = "Running" => states'[l].phase = "Running"]_vars

(* C2's case: a lane has been stepped twice and is running. *)
C2_Witness ==
    \E l \in Lanes : Len(packedOut[l]) >= 2 /\ states[l].phase = "Running"

(* C3: once the lock-step run of the batch is over, the outputs of every   *)
(* lane are those of the lane run alone from the decoder's start state and *)
(* the configured initial query.                                           *)
C3_LaneAloneFromStartQuery ==
    (SeqsDone /\ Len(decIn) = Len(Resources)) =>
        \A l \in Lanes : packedOut[l] = ExpectedOuts(l, 1, StartQuery, InnerStart)

(* C4: what SoftAlign.Apply returns has one lane per lane of decIn, and    *)
(* lane i is the block's output sequence of lane i (one output per input   *)
(* of the lane) without its first timestep, in order.                      *)
C4_SkipFirst ==
    ApplyDone =>
        /\ Len(skipped.Skipped) = Len(decIn)
        /\ \A i \in Lanes :
             /\ Len(packedOut[i]) = Len(decIn[i])
             /\ Len(skipped.Skipped[i]) = Len(decIn[i]) - 1
             /\ \A t \in 1..(Len(decIn[i]) - 1) :
                    skipped.Skipped[i][t] = packedOut[i][t + 1]

(* C4's case: Apply has returned for lanes of different lengths, one of    *)
(* them with at least two outputs left.                                    *)
C4_Witness ==
    /\ pc = "out"
    /\ ~rmode
    /\ \E i, k \in Lanes :
         /\ Len(decIn[i]) >= 3
         /\ Len(decIn[k]) < Len(decIn[i])
         /\ skipped.Skipped[i][1] # skipped.Skipped[i][2]

(* C5: after PropagateGradient (PropagateRGradient) of a step's result     *)
(* has returned, g (and rg) holds no entry for a query variable of the     *)
(* step's pool, the entries of all other variables are still there, and    *)
(* every lane of the step has a state gradient that carries a query        *)
(* gradient of the query's size.                                           *)
C5_PoolEntriesDeleted ==
    lastBack.step # 0 =>
        /\ (DOMAIN g.m) \cap lastBack.pool = {}
        /\ (DOMAIN rg) \cap lastBack.pool = {}
        /\ DOMAIN g.m = lastBack.before
        /\ DOMAIN rg = lastBack.rbefore
        /\ \A k \in DOMAIN g.m : k[1] # "pool"
        /\ \A k \in DOMAIN rg : k[1] # "pool"
        /\ \A j \in 1..Len(lastBack.lanes) :
             /\ ~stateUp[lastBack.lanes[j]].nil
             /\ Len(stateUp[lastBack.lanes[j]].UpstreamQuery) = ResInSize

(* C5's case: a step of two lanes has propagated into an accumulator that  *)
(* holds entries of other variables.                                       *)
C5_Witness ==
    /\ lastBack.step # 0
    /\ Len(lastBack.lanes) >= 2
    /\ lastBack.before # {}
    /\ pc = "back"

----------------------------------------------------------------------------
(* The claim about SoftAlign.Block.                                        *)

(* The number of lanes of a batch. *)
LaneCount(e) == IF Len(e) = 0 THEN 0 ELSE Len(e[1].Present)

(* The number of positions of lane l of a batch. *)
LaneLen(e, l) == Cardinality({t \in 1..Len(e) : e[t].Present[l]})

BlockCalled == blockRes # NoBlock

(* C6: SoftAlign.Block panics whenever the encoded batch has no lanes (no  *)
(* timesteps, or no lane present at the first timestep) or some lane of it *)
(* has zero length; it returns a block, bound to the batch, only when      *)
(* every lane has at least one position.                                   *)
C6_BlockPanicsOnEmpty ==
    BlockCalled =>
        /\ blockRes.panic <=>
              \/ LaneCount(enc) = 0
              \/ \E l \in 1..LaneCount(enc) : LaneLen(enc, l) = 0
        /\ ~blockRes.panic => blockRes.Encoded = enc

(* Block has panicked on a batch with a lane of zero length next to a lane *)
(* with positions.                                                         *)
C6_Witness ==
    /\ BlockCalled
    /\ blockRes.panic
    /\ \E l \in 1..LaneCount(enc) : LaneLen(enc, l) = 0
    /\ \E l \in 1..LaneCount(enc) : LaneLen(enc, l) > 0

----------------------------------------------------------------------------
(* The claim about the focus function's check.                             *)

(* C7: focusFunc.Apply panics, and returns no value, when Encoded is nil;  *)
(* focusFunc.ApplyR panics, and returns no value, when EncodedR is nil.    *)
C7_FocusPanicsUnbound ==
    /\ (focusRes.called = "Apply" /\ focus.Encoded.nil)
          => focusRes.res.panic /\ focusRes.res.out = <<>>
    /\ (focusRes.called = "ApplyR" /\ focus.EncodedR.nil)
          => focusRes.res.panic /\ focusRes.res.out = <<>>

(* Apply has panicked with Encoded nil, although EncodedR is bound. *)
C7_Witness ==
    /\ focusRes.called = "Apply"
    /\ focus.Encoded.nil
    /\ ~focus.EncodedR.nil
    /\ focusRes.res.panic

----------------------------------------------------------------------------
(* The claims about seqSoftmax.                                            *)

SmDone == smOut # NoSoftmax

FNonNegative(a) == a.k = "inf" \/ (a.k = "fin" /\ a.n >= 0)

(* C8: seqSoftmax returns a batch of the same shape as its argument, in    *)
(* which every value is non-negative and the values of each lane sum to 1. *)
C8_SoftmaxShapeSum ==
    SmDone =>
        /\ ~smOut.panic
        /\ Len(smOut.seq) = Len(smIn)
        /\ \A l \in 1..Len(smIn) :
              /\ Len(smOut.seq[l]) = Len(smIn[l])
              /\ \A t \in 1..Len(smIn[l]) : FNonNegative(smOut.seq[l][t])
              /\ FSum(smOut.seq[l]) = FOne

(* C9: at every position of every lane, the output of seqSoftmax is the    *)
(* closed-form softmax of that lane's own values, whatever the other lanes *)
(* of the batch are.                                                       *)
C9_SoftmaxClosedForm ==
    SmDone =>
        /\ ~smOut.panic
        /\ \A l \in 1..Len(smIn) : smOut.seq[l] = ClosedForm(smIn[l])

(* C10: a lane of length 1 yields exactly 1.0, whatever its value. *)
C10_SingletonIsOne ==
    SmDone =>
        /\ ~smOut.panic
        /\ \A l \in 1..Len(smIn) :
              Len(smIn[l]) = 1 => smOut.seq[l] = <<FOne>>

(* Every value of the lane is at or below the sentinel. *)
AllAtOrBelowSentinel(x) == \A t \in 1..Len(x) : x[t] <= Sentinel

(* C11: for a lane whose values are all at or below the sentinel, so that  *)
(* its maximum reduces to the sentinel, seqSoftmax computes a finite       *)
(* reciprocal of the lane's sum of exponentials, never a division by zero. *)
C11_FiniteReciprocal ==
    SmDone =>
        \A l \in 1..Len(smIn) :
            AllAtOrBelowSentinel(smIn[l]) =>
                /\ ~smOut.panic
                /\ smMid.scalers[l].k = "fin"

----------------------------------------------------------------------------
(* The claim about the focus function's batching.                          *)

FocusApplied == focusRes.called = "Apply" /\ ~focusRes.res.panic

(* C12: the context vector focusFunc.Apply returns for a query and a bound *)
(* lane is the same for every BatchSize, and BatchSize 0 is treated as     *)
(* batch size 1: it is the vector every other BatchSize yields, and the    *)
(* one yielded when the Attentor is applied to one position at a time.     *)
C12_BatchSizeInvariant ==
    FocusApplied =>
        /\ \A bs \in 0..MaxBatch :
              focusRes.res.out =
                 FocusOn(focus.Encoded.seqs, [focus EXCEPT !.BatchSize = bs],
                         focusIn)
        /\ LET e == focus.Encoded.seqs[focus.Lane + 1]
           IN  EnergiesFrom([t \in 1..Len(e) |-> focusIn \o e[t]], 1,
                            IF focus.BatchSize = 0 THEN 1 ELSE focus.BatchSize)
                 = [t \in 1..Len(e) |-> Energy(focusIn \o e[t])]

(* Apply has returned for a lane of three positions with different         *)
(* energies, evaluated two at a time.                                      *)
C12_Witness ==
    /\ FocusApplied
    /\ focus.BatchSize = 2
    /\ LET e == focus.Encoded.seqs[focus.Lane + 1]
       IN  /\ Len(e) = 3
           /\ Energy(focusIn \o e[1]) # Energy(focusIn \o e[2])

----------------------------------------------------------------------------
(* The claims about the steps of the interfacer block.                     *)

(* The resource bound to lane l at the first step: that of the lane's      *)
(* place in the first batch.                                               *)
FirstBound(l) == Resources[IndexOf(steps[1].lanes, l)]

(* C15: the resource bound to a lane at the first step (Resources[j] for   *)
(* the j-th state of the first batch) is the resource of that lane in      *)
(* every later state of the run, also after the batch has shrunk, and      *)
(* every step evaluates a lane with that resource and no other.            *)
C15_ResourceStaysBound ==
    /\ \A t \in 1..Len(steps) :
          \A j \in 1..Len(steps[t].lanes) :
             LET l   == steps[t].lanes[j]
                 res == steps[t].res
             IN  /\ res.Bound[j].Resource = FirstBound(l)
                 /\ res.OutStates[j].Resource = FirstBound(l)
                 /\ res.JoinedIns[j] =
                       ResApply(FirstBound(l), res.Bound[j].Query)
                          \o decIn[l][t]
    /\ \A l \in Lanes :
          states[l].phase = "Running" => states[l].Resource = FirstBound(l)

(* A later step has run on a shrunken batch, in which a lane stands at     *)
(* another place than in the first batch.                                  *)
C15_Witness ==
    \E t \in 2..Len(steps) :
       /\ Len(steps[t].lanes) < Len(steps[1].lanes)
       /\ \E j \in 1..Len(steps[t].lanes) :
             IndexOf(steps[1].lanes, steps[t].lanes[j]) # j

(* The decoder's raw output for the j-th lane of step t. *)
RawOut(t, j) ==
    InnerOut(steps[t].res.Bound[j].Inner, steps[t].res.JoinedIns[j])

(* C16: at every step and for every lane, ApplyBlock splits the decoder's  *)
(* raw output v into the next query v[:ResInSize] and the visible output   *)
(* v[ResInSize:]: the parts are disjoint and their concatenation is v, the *)
(* query of the returned state has length ResInSize, and the query the     *)
(* lane uses at the next step is this prefix.                              *)
C16_RawOutputSplit ==
    \A t \in 1..Len(steps) :
       \A j \in 1..Len(steps[t].lanes) :
          LET v   == RawOut(t, j)
              res == steps[t].res
              l   == steps[t].lanes[j]
          IN  /\ res.OutStates[j].Query = SubSeq(v, 1, ResInSize)
              /\ res.OutVecs[j] = SubSeq(v, ResInSize + 1, Len(v))
              /\ res.OutStates[j].Query \o res.OutVecs[j] = v
              /\ Len(res.OutStates[j].Query) = ResInSize
              /\ packedOut[l][t] = res.OutVecs[j]
              /\ (t < Len(steps) /\ IndexOf(steps[t + 1].lanes, l) # 0) =>
                    steps[t + 1].res.QueryPool[IndexOf(steps[t + 1].lanes, l)]
                       = SubSeq(v, 1, ResInSize)

(* Two steps have run with queries of two components, a lane of the first  *)
(* step taking part in the second after another lane has ended, with a     *)
(* query that is not zero and whose components differ.                     *)
C16_Witness ==
    /\ Len(steps) >= 2
    /\ ResInSize = MaxResIn
    /\ Len(steps[2].lanes) < Len(steps[1].lanes)
    /\ steps[2].res.QueryPool[1] # Zeros(ResInSize)
    /\ steps[2].res.QueryPool[1][1] # steps[2].res.QueryPool[1][2]

----------------------------------------------------------------------------
(* The claims about the backward pass of the interfacer block.             *)

(* A backward step has run; lastBack holds its arguments and results. *)
BackDone == lastBack.step # 0

(* The query part of the raw-output gradient the last backward step gave   *)
(* the decoder for its j-th lane.                                          *)
QueryPart(b, j) == SubSeq(b.innerUp[j], 1, ResInSize)

(* C17: in PropagateGradient, the gradient passed to the decoder for lane  *)
(* j's raw output is the upstream query gradient followed by the upstream  *)
(* visible-output gradient; without a downstream state gradient the query  *)
(* part is a zero vector of length ReqSize, without an output gradient (u  *)
(* nil) the output part is a zero vector of the visible output's length,   *)
(* and the whole always has the raw output's length.                       *)
C17_InnerUpConcat ==
    BackDone =>
        \A j \in 1..Len(lastBack.lanes) :
           LET r  == steps[lastBack.step].res
               sg == lastBack.s[j]
               q  == IF sg.nil THEN [k \in 1..r.ReqSize |-> 0]
                               ELSE sg.UpstreamQuery
               o  == IF lastBack.u = <<>>
                     THEN [k \in 1..Len(r.OutVecs[j]) |-> 0]
                     ELSE lastBack.u[j]
           IN  /\ lastBack.innerUp[j] = q \o o
               /\ Len(q) = r.ReqSize
               /\ Len(lastBack.innerUp[j]) = Len(RawOut(lastBack.step, j))

(* A step of two lanes has propagated with no output gradient, one lane    *)
(* without a state gradient and one with a state gradient that is not      *)
(* zero.                                                                   *)
C17_Witness ==
    /\ BackDone
    /\ lastBack.u = <<>>
    /\ \E j, k \in 1..Len(lastBack.lanes) :
          /\ lastBack.s[j].nil
          /\ ~lastBack.s[k].nil
          /\ lastBack.s[k].UpstreamQuery # Zeros(ResInSize)

(* C18: the query gradient that the backward step of step t returns in a   *)
(* lane's state gradient is the query part of the raw-output gradient the  *)
(* backward step of step t-1 uses for that lane; the steps are propagated  *)
(* in reverse timestep order, and a lane's last step uses a zero query     *)
(* gradient.                                                               *)
C18_QueryGradFromNextStep ==
    [][lastBack'.step # lastBack.step =>
         /\ lastBack'.step =
               IF BackDone THEN lastBack.step - 1 ELSE Len(steps)
         /\ \A j \in 1..Len(lastBack'.lanes) :
               LET l == lastBack'.lanes[j]
                   i == IndexOf(lastBack.lanes, l)
               IN  IF Len(decIn[l]) = lastBack'.step
                   THEN QueryPart(lastBack', j) = Zeros(ResInSize)
                   ELSE /\ BackDone
                        /\ i # 0
                        /\ QueryPart(lastBack', j)
                              = lastBack.down[i].UpstreamQuery]_vars

(* The backward steps of two successive timesteps have run, the earlier    *)
(* one with a query gradient that is not zero for a lane and a zero one    *)
(* for a lane that ends there.                                             *)
C18_Witness ==
    /\ BackDone
    /\ lastBack.step < Len(steps)
    /\ \E j, k \in 1..Len(lastBack.lanes) :
          /\ Len(decIn[lastBack.lanes[j]]) = lastBack.step
          /\ Len(decIn[lastBack.lanes[k]]) > lastBack.step
          /\ QueryPart(lastBack, k) # Zeros(ResInSize)

----------------------------------------------------------------------------
(* The claim about the backward pass of the skipped first timestep.        *)

(* skipFirstResult.PropagateGradient (PropagateRGradient) has built the    *)
(* upstream of the wrapped result.                                         *)
SkipPropagated == newU.by = "skipFirst"

(* The caller's upstream seen from the wrapped result: a zero vector of    *)
(* the size of the dropped output in front, the caller's vectors after it. *)
ShiftedUpstream(x, i) ==
    /\ Len(x) = Len(packedOut[i])
    /\ Len(x) = Len(newU.u[i]) + 1
    /\ x[1] = [k \in 1..Len(packedOut[i][1]) |-> 0]
    /\ \A t \in 1..Len(newU.u[i]) : x[t + 1] = newU.u[i][t]

(* C19: skipFirstResult.PropagateGradient (and PropagateRGradient of       *)
(* skipFirstRResult) passes to the wrapped result, for every lane, the     *)
(* caller's upstream with one all-zero vector of the dropped first         *)
(* output's length in front and the caller's vectors after it, unchanged   *)
(* and in order: one upstream vector for every timestep the wrapped        *)
(* result produced.                                                        *)
C19_ZeroUpstreamInFront ==
    SkipPropagated =>
        /\ Len(newU.U) = Len(newU.u)
        /\ \A i \in Lanes : ShiftedUpstream(newU.U[i], i)
        /\ rmode => /\ Len(newU.UR) = Len(newU.u)
                    /\ \A i \in Lanes : ShiftedUpstream(newU.UR[i], i)

(* The upstream has been built for lanes of different lengths, one with    *)
(* two upstream vectors that differ and of which the first is not zero.    *)
C19_Witness ==
    /\ SkipPropagated
    /\ \E i, k \in Lanes :
          /\ Len(newU.u[i]) >= 2
          /\ Len(newU.u[k]) < Len(newU.u[i])
          /\ newU.u[i][1] # newU.u[i][2]
          /\ newU.u[i][1] # Zeros(OutSize)

----------------------------------------------------------------------------
(* The claim about the maxima of seqSoftmax.                               *)

(* The maximum of the sentinel and all values of a lane. *)
SentinelMax(x) == IntMax(Sentinel, TrueMaxTo(x, Len(x)))

(* C20: maxPerSeq returns for each lane the maximum of the sentinel and    *)
(* all of the lane's values, and subAndExp subtracts that value from every *)
(* element of the lane before exponentiating: in a lane whose maximum is   *)
(* at least the sentinel every exponent is at most 0, and that of the      *)
(* lane's largest element is exactly 0.                                    *)
C20_MaxesAndExps ==
    SmDone =>
        /\ ~smOut.panic
        /\ Len(smMid.maxes) = Len(smIn)
        /\ \A l \in 1..Len(smIn) :
              /\ smMid.maxes[l] = SentinelMax(smIn[l])
              /\ \A t \in 1..Len(smIn[l]) :
                    smMid.exps[l][t] = FExp(smIn[l][t] - SentinelMax(smIn[l]))
              /\ TrueMaxTo(smIn[l], Len(smIn[l])) >= Sentinel =>
                    /\ \A t \in 1..Len(smIn[l]) :
                          smIn[l][t] - smMid.maxes[l] <= 0
                    /\ \E t \in 1..Len(smIn[l]) :
                          /\ smIn[l][t] - smMid.maxes[l] = 0
                          /\ smMid.exps[l][t] = FOne

----------------------------------------------------------------------------
(* The claim about the focus function's weights.                           *)

(* The encoded lanes with every vector of the lanes other than lane        *)
(* (0-based) replaced by another one.                                      *)
OtherLanesChanged(seqs, lane) ==
    [l \in 1..Len(seqs) |->
        IF l = lane + 1 THEN seqs[l]
        ELSE [t \in 1..Len(seqs[l]) |-> <<(seqs[l][t][1] + 1) % Mod>>]]

(* The sum of exp(energy) over the positions of the lane e for query q. *)
ExpSum(e, q) == FSum([t \in 1..Len(e) |-> FExp(Energy(q \o e[t]))])

(* C21: the context vector focusFunc.Apply returns is the weighted sum of  *)
(* the encoded vectors of lane Lane only, one weight for each encoded      *)
(* position of that lane; the weights are non-negative and sum to 1, each  *)
(* the exponential of the position's energy divided by the sum of the      *)
(* exponentials over the lane's positions; the encoded vectors of the      *)
(* other lanes do not contribute.                                          *)
C21_WeightedSumOfLane ==
    FocusApplied =>
        LET seqs == focus.Encoded.seqs
            e    == seqs[focus.Lane + 1]
            w    == FocusProbs(seqs, focus, focusIn)
        IN  /\ Len(w) = Len(e)
            /\ \A t \in 1..Len(e) :
                  /\ w[t].k = "fin" /\ w[t].n >= 0
                  /\ w[t] = FMul(FExp(Energy(focusIn \o e[t])),
                                 FInv(ExpSum(e, focusIn)))
            /\ FSum(w) = FOne
            /\ focusRes.res.out =
                  AddAll([t \in 1..Len(e) |->
                            [c \in 1..Len(e[t]) |->
                                FMul(Fin(e[t][c], 1), w[t])]])
            /\ focusRes.res.out =
                  FocusOn(OtherLanesChanged(seqs, focus.Lane), focus, focusIn)
            /\ focusRes.res.out =
                  FocusOn(<<e>>, [focus EXCEPT !.Lane = 0], focusIn)

----------------------------------------------------------------------------
(* The claim about the phases of the states of one call.                   *)

(* Every state passed to the last call of ApplyBlock or ApplyBlockR was in *)
(* phase ph.                                                               *)
AllInPhase(ph) == \A j \in 1..lastCall.n : lastCall.phases[j] = ph

(* C22: in every call of ApplyBlock (or ApplyBlockR) made while the lanes  *)
(* of decIn, of whatever lengths, are driven step by step from StartState, *)
(* the states passed in are all Initial or all Running: no call gets a     *)
(* batch that mixes the two phases, of which ApplyBlock inspects only the  *)
(* first state's.                                                          *)
C22_NoMixedPhases ==
    lastCall.n > 0 => AllInPhase("Initial") \/ AllInPhase("Running")

(* A call past the first step has run on running states only, while a lane *)
(* without any input still holds its initial state.                        *)
C22_Witness ==
    /\ lastCall.n > 0
    /\ ~lastCall.panic
    /\ AllInPhase("Running")
    /\ \E l \in Lanes : Len(decIn[l]) = 0 /\ states[l].phase = "Initial"

----------------------------------------------------------------------------
(* The claim about the lanes of SoftAlign.Apply.                           *)

(* SoftAlign.Apply (ApplyR) has returned a result: that of BlockSeqFunc    *)
(* as it is, or the one wrapped by newSkipFirstResult.                     *)
ApplyReturned == pc \in {"ret", "out", "back", "done"}

(* The lanes of decIn correspond one-to-one with the encoder's lanes, one  *)
(* focus function each: as many lanes, none of them empty.                 *)
LanesCorrespond ==
    /\ Len(decIn) = Len(Resources)
    /\ \A l \in Lanes : Len(decIn[l]) > 0

(* C23: SoftAlign.Apply fails or runs every lane i of decIn against the    *)
(* focus function of encoded lane i: when the lanes of decIn do not        *)
(* correspond one-to-one with the encoder's lanes (another lane count, or  *)
(* a lane of length 0), Apply does not return a result, and when it        *)
(* returns one, every lane was bound to the resource of its own index.     *)
C23_ApplyFailsOrAligned ==
    ApplyReturned =>
        /\ LanesCorrespond
        /\ \A l \in Lanes : FirstBound(l) = Resources[l]

============================================================================
